---- MODULE Spec2Model ----
(***************************************************************************)
(* Model of show-order/mvm_showcase_order.py: class SetlistSolver.          *)
(*                                                                         *)
(* The solver object (teams, teams_to_members, adjacency_masks) is built   *)
(* by __init__; generate_valid_setlists is a Python generator function, so *)
(* a call only creates a generator object and the body runs pull by pull   *)
(* (next()).  The recursive generator solve() of _backtrack_with_end is    *)
(* modelled as an explicit stack of frames, one step per statement group.  *)
(* Node indices are 0-based as in the source; TLA+ sequences are 1-based,  *)
(* so list element i is read with At(list, i).                             *)
(***************************************************************************)
EXTENDS Integers, Sequences, FiniteSets, TLC

\* ---------------------------------------------------------------- bounds
MaxTeams == 3
MaxLimit == 1
PairTeams == 3

\* ------------------------------------------------------- Python values
None == "<None>"
NoneInt == 0 - 1

\* bool(s) of an Optional[str]: None and the empty string are falsy.
Truthy(s) == s # None /\ s # ""

At(list, i) == list[i + 1]

Last(list) == list[Len(list)]

Range(list) == {list[k] : k \in 1..Len(list)}

\* ---------------------------------------------------------- int bitmasks
\* Python ints are unbounded; every mask of the program is in 0 .. 2^n - 1
\* for a solver of n <= MaxTeams teams, so bits 0..MaxTeams cover them.
Pow2(j) == 2 ^ j

Bit(m, j) == (m \div Pow2(j)) % 2

\* The positions of the set bits of m.
BitsOf(m) == {j \in 0..MaxTeams : Bit(m, j) = 1}

\* The int with exactly the bits of S set.
RECURSIVE MaskFrom(_, _)
MaskFrom(S, j) ==
    IF j > MaxTeams THEN 0
    ELSE (IF j \in S THEN Pow2(j) ELSE 0) + MaskFrom(S, j + 1)

MaskOf(S) == MaskFrom(S, 0)

\* m | (1 << j)
SetBit(m, j) == IF Bit(m, j) = 1 THEN m ELSE m + Pow2(j)

\* m & ~(1 << j)
ClearBit(m, j) == IF Bit(m, j) = 1 THEN m - Pow2(j) ELSE m

\* a & ~b  (for a >= 0, b >= 0)
AndNot(a, b) == MaskOf(BitsOf(a) \ BitsOf(b))

\* bin(m).count("1")
PopCount(m) == Cardinality(BitsOf(m))

\* -------------------------------------------------------------- sorting
\* list.sort / sorted with a key: stable, ascending.  key is a function
\* from the elements to integers.
RECURSIVE InsertByKey(_, _, _)
InsertByKey(sorted, e, key) ==
    IF sorted = <<>> THEN <<e>>
    ELSE IF key[Last(sorted)] <= key[e] THEN Append(sorted, e)
    ELSE Append(InsertByKey(SubSeq(sorted, 1, Len(sorted) - 1), e, key), Last(sorted))

RECURSIVE SortedByKey(_, _)
SortedByKey(list, key) ==
    IF list = <<>> THEN <<>>
    ELSE InsertByKey(SortedByKey(SubSeq(list, 1, Len(list) - 1), key), Last(list), key)

\* range(k) as a list
RECURSIVE RangeList(_)
RangeList(k) == IF k = 0 THEN <<>> ELSE Append(RangeList(k - 1), k - 1)

\* ------------------------------------------------------------- members
\* A member name is a string, modelled as a sequence of characters so that
\* str.strip() is computed and not assumed.
IsSpace(ch) == ch \in {" ", "\t"}

RECURSIVE LStrip(_)
LStrip(s) ==
    IF s = <<>> THEN <<>>
    ELSE IF IsSpace(Head(s)) THEN LStrip(Tail(s)) ELSE s

RECURSIVE RStrip(_)
RStrip(s) ==
    IF s = <<>> THEN <<>>
    ELSE IF IsSpace(Last(s)) THEN RStrip(SubSeq(s, 1, Len(s) - 1)) ELSE s

\* str(m).strip()
Strip(s) == RStrip(LStrip(s))

\* The member names the inputs are drawn from: two of them differ only in
\* surrounding whitespace.
RawMembers == {<<"x">>, <<" ", "x", " ">>, <<"y">>}

\* The team identifiers the inputs are drawn from, in mapping order: the
\* mapping of n teams has the first n of them as its keys.  The second one
\* is the empty string, a key a dict accepts like any other.
TeamKeys == <<"a", "", "c", "d", "e">>

KeyList(n) == [k \in 1..n |-> TeamKeys[k]]

\* An identifier that is no team of any mapping.
UnknownTeam == "zz"

\* ------------------------------------------------------------- state
VARIABLES
    teams,            \* self.teams: list of team identifiers, mapping order
    teams_to_members, \* self.teams_to_members: team -> set of stripped names
    adjacency_masks,  \* self.adjacency_masks: list of int bitmasks
    pc,               \* per generator object: where its body stands
    args,             \* per generator object: limit, start_team, end_team
    rank,             \* locals of generate_valid_setlists after reindexing
    produced,         \* local `produced` of generate_valid_setlists
    path_indices,     \* loop variable of the wrapper's for loop
    path,             \* local `path` of a _backtrack_with_end call
    used_mask,        \* local `used_mask` of a _backtrack_with_end call
    stack,            \* active solve() frames of a _backtrack_with_end call
    out               \* what the consumer has received from each generator

vars == <<teams, teams_to_members, adjacency_masks, pc, args, rank, produced,
          path_indices, path, used_mask, stack, out>>

solver == <<teams, teams_to_members, adjacency_masks>>

\* The generator objects a run may create.
Gens == {1, 2}

\* self.team_count
team_count == Len(teams)

\* self.team_to_idx[team]
team_to_idx(team) == CHOOSE i \in 0..(team_count - 1) : At(teams, i) = team

\* `team in self.team_to_idx`
IsTeam(team) == team \in Range(teams)

\* ------------------------------------------------------- construction
\* One row of _build_compatibility_graph: the mask of team i, with the
\* `if i == j: continue` skip dropped (used to perturb MaskRow).
MaskRowNoSkip(i, teamList, members) ==
    MaskOf({j \in 0..(Len(teamList) - 1) :
                members[At(teamList, j)] \cap members[At(teamList, i)] = {}})

\* One row of _build_compatibility_graph: the mask of team i.
MaskRow(i, teamList, members) ==
    MaskOf({j \in 0..(Len(teamList) - 1) :
                /\ j # i
                /\ members[At(teamList, j)] \cap members[At(teamList, i)] = {}})

\* SetlistSolver._build_compatibility_graph
build_compatibility_graph(teamList, members) ==
    [k \in 1..Len(teamList) |-> MaskRow(k - 1, teamList, members)]

\* SetlistSolver.__init__ on a non-empty mapping with keys `keys` (in
\* order) and raw member collections `raw`.
Construct(keys, raw) ==
    /\ teams = keys
    /\ teams_to_members = [t \in Range(keys) |-> {Strip(m) : m \in raw[t]}]
    /\ adjacency_masks = build_compatibility_graph(keys,
                            [t \in Range(keys) |-> {Strip(m) : m \in raw[t]}])

NoRank == [ranked_indices |-> <<>>, adj_r |-> <<>>, teams_r |-> <<>>,
           start_node_r |-> NoneInt, end_node_r |-> NoneInt]

NoArgs == [limit |-> NoneInt, start_team |-> None, end_team |-> None]

NoGenerators ==
    /\ pc = [g \in Gens |-> "absent"]
    /\ args = [g \in Gens |-> NoArgs]
    /\ rank = [g \in Gens |-> NoRank]
    /\ produced = [g \in Gens |-> 0]
    /\ path_indices = [g \in Gens |-> <<>>]
    /\ path = [g \in Gens |-> <<>>]
    /\ used_mask = [g \in Gens |-> 0]
    /\ stack = [g \in Gens |-> <<>>]
    /\ out = [g \in Gens |-> <<>>]

\* A solver constructed from any mapping of 1..MaxTeams teams.
Init ==
    /\ \E n \in 1..MaxTeams :
         \E raw \in [Range(KeyList(n)) -> SUBSET RawMembers] :
             Construct(KeyList(n), raw)
    /\ NoGenerators

\* ------------------------------------------------- ordering heuristic
\* ranked_indices = sorted(range(n), key=popcount(adjacency_masks[i]))
ranked_indices_of(adj) ==
    SortedByKey(RangeList(Len(adj)),
                [i \in 0..(Len(adj) - 1) |-> PopCount(At(adj, i))])

\* idx_to_rank = {orig: r for r, orig in enumerate(ranked_indices)}
idx_to_rank_of(ranked) ==
    [orig \in Range(ranked) |->
        CHOOSE r \in 0..(Len(ranked) - 1) : At(ranked, r) = orig]

\* The reindexed mask of original node i (inner loop over j).
reindexed_mask(original_mask, idx_to_rank) ==
    MaskOf({idx_to_rank[j] : j \in BitsOf(original_mask)})

\* adj_r[idx_to_rank[i]] = m, for every i
adj_r_of(adj, ranked) ==
    [k \in 1..Len(adj) |->
        reindexed_mask(At(adj, At(ranked, k - 1)), idx_to_rank_of(ranked))]

\* teams_r = [self.teams[i] for i in ranked_indices]
teams_r_of(teamList, ranked) ==
    [k \in 1..Len(ranked) |-> At(teamList, At(ranked, k - 1))]

\* idx_to_rank[self.team_to_idx[team]] if team else None
node_r_of(team, ranked) ==
    IF Truthy(team) THEN idx_to_rank_of(ranked)[team_to_idx(team)] ELSE NoneInt

\* The locals the body of generate_valid_setlists sets up before the loop.
Reindex(a) ==
    LET ranked == ranked_indices_of(adjacency_masks)
    IN  [ranked_indices |-> ranked,
         adj_r          |-> adj_r_of(adjacency_masks, ranked),
         teams_r        |-> teams_r_of(teams, ranked),
         start_node_r   |-> node_r_of(a.start_team, ranked),
         end_node_r     |-> node_r_of(a.end_team, ranked)]

\* `if start_team and start_team not in self.team_to_idx` (and for end)
RaisesValueError(a) ==
    \/ Truthy(a.start_team) /\ ~IsTeam(a.start_team)
    \/ Truthy(a.end_team) /\ ~IsTeam(a.end_team)

\* ------------------------------------------------------- search engine
\* The path/used_mask cell a _backtrack_with_end call works on, were the
\* two kept on the solver instead of in the call (perturbs SearchState).
SearchStateOnSolver(g) == 1

\* The path/used_mask cell a _backtrack_with_end call works on: its own
\* locals, created by the call.
SearchState(g) == g

\* `L == n` with an off-by-one (perturbs IsComplete).
IsCompleteEarly(L, n) == L = n \/ (L = n - 1 /\ L > 0)

\* `if L == n`
IsComplete(L, n) == L = n

\* The set bits of x, lowest first (the `while x` loop).
RECURSIVE BitList(_, _)
BitList(x, j) ==
    IF x = 0 THEN <<>>
    ELSE IF x % 2 = 1 THEN <<j>> \o BitList(x \div 2, j + 1)
    ELSE BitList(x \div 2, j + 1)

\* The candidate list of one solve() frame: ret = TRUE is the early
\* `return  # cannot reach required end`.
Candidates(r, p, used, n) ==
    LET L == Len(p) IN
    IF L = 0
    THEN [ret |-> FALSE,
          list |-> IF r.start_node_r # NoneInt THEN <<r.start_node_r>>
                   ELSE RangeList(n)]
    ELSE
      LET last == Last(p)
          base == AndNot(At(r.adj_r, last), used)
          reserved == IF r.end_node_r # NoneInt /\ L < n - 1
                      THEN ClearBit(base, r.end_node_r)
                      ELSE base
          forced == r.end_node_r # NoneInt /\ L = n - 1
          allowed == IF forced THEN Pow2(r.end_node_r) ELSE reserved
          key == [c \in 0..(n - 1) |-> PopCount(AndNot(At(r.adj_r, c), used))]
      IN  IF forced /\ Bit(reserved, r.end_node_r) = 0
          THEN [ret |-> TRUE, list |-> <<>>]
          ELSE [ret |-> FALSE, list |-> SortedByKey(BitList(allowed, 0), key)]

\* A solve() frame that has just been called.
EntryFrame(p, used) ==
    [at |-> "entry", candidates |-> <<>>, k |-> 0, path0 |-> p, used0 |-> used]

\* `return` of the top solve() frame: the frame is gone; when it was the
\* outermost one the engine is exhausted, the wrapper's for loop ends and
\* generate_valid_setlists returns.
Return(g) ==
    /\ stack' = [stack EXCEPT ![g] = SubSeq(@, 1, Len(@) - 1)]
    /\ pc' = [pc EXCEPT ![g] = IF Len(stack[g]) = 1 THEN "done" ELSE @]

Top(g) == Last(stack[g])

SetTop(g, frame) == [stack EXCEPT ![g] = [@ EXCEPT ![Len(@)] = frame]]

Running(g) == pc[g] \in {"searching", "received"}

\* One thread: a generator body runs only while no other one is running.
Idle == \A g \in Gens : ~Running(g)

\* ------------------------------------------------------------ validator
\* SetlistSolver._sequence_is_valid(seq)[0]
sequence_is_valid(seq) ==
    \A k \in 1..(Len(seq) - 1) :
        teams_to_members[seq[k]] \cap teams_to_members[seq[k + 1]] = {}

\* `limit is not None and produced > limit` (perturbs CapReached).
CapReachedLate(count, limit) == limit # NoneInt /\ count > limit

\* `limit is not None and produced >= limit`
CapReached(count, limit) == limit # NoneInt /\ count >= limit

\* seq = [teams_r[i] for i in path_indices]
NamesOf(r, indices) == [k \in 1..Len(indices) |-> At(r.teams_r, indices[k])]

\* The undo of used_mask with the unmark forgotten (perturbs Unmark).
UnmarkForgotten(used, c) == used

\* used_mask &= ~(1 << c)
Unmark(used, c) == ClearBit(used, c)

\* -------------------------------------------------------------- actions
\* solver.generate_valid_setlists(limit, start_team, end_team): the call of
\* a generator function binds the arguments and returns the generator
\* object; no statement of the body runs.
Call(g, a) ==
    /\ pc[g] = "absent"
    /\ pc' = [pc EXCEPT ![g] = "created"]
    /\ args' = [args EXCEPT ![g] = a]
    /\ UNCHANGED <<solver, rank, produced, path_indices, path, used_mask, stack, out>>

\* First next(): the body starts and one of the two checks raises.
FirstPullRaises(g) ==
    /\ pc[g] = "created"
    /\ Idle
    /\ RaisesValueError(args[g])
    /\ pc' = [pc EXCEPT ![g] = "raised"]
    /\ UNCHANGED <<solver, args, rank, produced, path_indices, path, used_mask, stack, out>>

\* First next(): the checks pass, the graph is reindexed, produced = 0, and
\* _backtrack_with_end starts with an empty path and the outermost solve().
FirstPullStarts(g) ==
    /\ pc[g] = "created"
    /\ Idle
    /\ ~RaisesValueError(args[g])
    /\ rank' = [rank EXCEPT ![g] = Reindex(args[g])]
    /\ produced' = [produced EXCEPT ![g] = 0]
    /\ path' = [path EXCEPT ![SearchState(g)] = <<>>]
    /\ used_mask' = [used_mask EXCEPT ![SearchState(g)] = 0]
    /\ stack' = [stack EXCEPT ![g] = <<EntryFrame(<<>>, 0)>>]
    /\ pc' = [pc EXCEPT ![g] = "searching"]
    /\ UNCHANGED <<solver, args, path_indices, out>>

\* A later next(): the wrapper continues after `yield seq` with
\* produced += 1 and asks the engine for the next path.
Resume(g) ==
    /\ pc[g] = "suspended"
    /\ Idle
    /\ produced' = [produced EXCEPT ![g] = @ + 1]
    /\ pc' = [pc EXCEPT ![g] = "searching"]
    /\ UNCHANGED <<solver, args, rank, path_indices, path, used_mask, stack, out>>

\* solve() from its first line to the start of its for loop: a complete
\* path is yielded (or dropped when it misses the end), the required end
\* is found unreachable, or the candidates are listed.
SolveEntry(g) ==
    /\ pc[g] = "searching"
    /\ Top(g).at = "entry"
    /\ LET p == path[SearchState(g)]
           used == used_mask[SearchState(g)]
           r == rank[g]
           cand == Candidates(r, p, used, team_count)
       IN  IF IsComplete(Len(p), team_count)
           THEN IF r.end_node_r = NoneInt \/ Last(p) = r.end_node_r
                THEN /\ path_indices' = [path_indices EXCEPT ![g] = p]
                     /\ stack' = SetTop(g, [Top(g) EXCEPT !.at = "yielded"])
                     /\ pc' = [pc EXCEPT ![g] = "received"]
                ELSE /\ Return(g)
                     /\ UNCHANGED path_indices
           ELSE IF cand.ret
                THEN /\ Return(g)
                     /\ UNCHANGED path_indices
                ELSE /\ stack' = SetTop(g, [Top(g) EXCEPT !.at = "loop",
                                                          !.candidates = cand.list,
                                                          !.k = 0])
                     /\ UNCHANGED <<pc, path_indices>>
    /\ UNCHANGED <<solver, args, rank, produced, path, used_mask, out>>

\* solve() resumed after `yield path.copy()`: `return`.
SolveAfterYield(g) ==
    /\ pc[g] = "searching"
    /\ Top(g).at = "yielded"
    /\ Return(g)
    /\ UNCHANGED <<solver, args, rank, produced, path_indices, path, used_mask, out>>

\* One turn of `for c in candidates` up to the recursive call: the loop
\* ends, the candidate is skipped as used, or it is pushed and solve() is
\* called for the longer path.
SolveLoop(g) ==
    /\ pc[g] = "searching"
    /\ Top(g).at = "loop"
    /\ LET f == Top(g)
           p == path[SearchState(g)]
           used == used_mask[SearchState(g)]
       IN  IF f.k >= Len(f.candidates)
           THEN /\ Return(g)
                /\ UNCHANGED <<path, used_mask>>
           ELSE LET c == At(f.candidates, f.k) IN
                IF Bit(used, c) = 1
                THEN /\ stack' = SetTop(g, [f EXCEPT !.k = @ + 1])
                     /\ UNCHANGED <<pc, path, used_mask>>
                ELSE /\ path' = [path EXCEPT ![SearchState(g)] = Append(p, c)]
                     /\ used_mask' = [used_mask EXCEPT ![SearchState(g)] = SetBit(used, c)]
                     /\ stack' = [stack EXCEPT ![g] =
                                    Append([@ EXCEPT ![Len(@)] = [f EXCEPT !.at = "rec"]],
                                           EntryFrame(Append(p, c), SetBit(used, c)))]
                     /\ UNCHANGED pc
    /\ UNCHANGED <<solver, args, rank, produced, path_indices, out>>

\* After `yield from solve()` returns: unmark, pop, next candidate.
SolveUndo(g) ==
    /\ pc[g] = "searching"
    /\ Top(g).at = "rec"
    /\ LET f == Top(g)
           c == At(f.candidates, f.k)
           p == path[SearchState(g)]
       IN  /\ used_mask' = [used_mask EXCEPT ![SearchState(g)] = Unmark(@, c)]
           /\ path' = [path EXCEPT ![SearchState(g)] = SubSeq(p, 1, Len(p) - 1)]
           /\ stack' = SetTop(g, [f EXCEPT !.at = "loop", !.k = @ + 1])
    /\ UNCHANGED <<solver, pc, args, rank, produced, path_indices, out>>

\* The body of the wrapper's for loop on the path the engine yielded: the
\* cap ends the generator, an invalid sequence is skipped, a valid one is
\* yielded to the consumer.
Receive(g) ==
    /\ pc[g] = "received"
    /\ LET seq == NamesOf(rank[g], path_indices[g]) IN
       IF CapReached(produced[g], args[g].limit)
       THEN /\ pc' = [pc EXCEPT ![g] = "done"]
            /\ UNCHANGED out
       ELSE IF sequence_is_valid(seq)
            THEN /\ out' = [out EXCEPT ![g] = Append(@, seq)]
                 /\ pc' = [pc EXCEPT ![g] = "suspended"]
            ELSE /\ pc' = [pc EXCEPT ![g] = "searching"]
                 /\ UNCHANGED out
    /\ UNCHANGED <<solver, args, rank, produced, path_indices, path, used_mask, stack>>

\* ------------------------------------------------------- specifications
\* limit: not passed, or a cap k >= 0.
Limits == {NoneInt} \cup 0..MaxLimit

\* start_team / end_team: not passed, a team, the empty string, or a name
\* that is no team.
TeamArgs == {None, "", UnknownTeam} \cup Range(teams)

ArgChoices ==
    [limit : Limits, start_team : TeamArgs, end_team : TeamArgs]

\* One generator object, any arguments.
Next ==
    \/ \E a \in ArgChoices : Call(1, a)
    \/ FirstPullRaises(1)
    \/ FirstPullStarts(1)
    \/ Resume(1)
    \/ SolveEntry(1)
    \/ SolveAfterYield(1)
    \/ SolveLoop(1)
    \/ SolveUndo(1)
    \/ Receive(1)

Spec == Init /\ [][Next]_vars

\* Two generator objects of one solver, pulled in any interleaving (a
\* generator that is never pulled again is an abandoned one).
PairMembers == {<<"x">>}

InitPair ==
    /\ \E raw \in [Range(KeyList(PairTeams)) -> SUBSET PairMembers] :
         Construct(KeyList(PairTeams), raw)
    /\ NoGenerators

PairArgChoices ==
    [limit : {NoneInt, 1}, start_team : {None, At(teams, 0)},
     end_team : {None, Last(teams)}]

NextPair ==
    \E g \in Gens :
        \/ \E a \in PairArgChoices : Call(g, a)
        \/ FirstPullStarts(g)
        \/ Resume(g)
        \/ SolveEntry(g)
        \/ SolveAfterYield(g)
        \/ SolveLoop(g)
        \/ SolveUndo(g)
        \/ Receive(g)

SpecPair == InitPair /\ [][NextPair]_vars

\* ------------------------------------------- the generator, run alone
\* list(solve()) for the frame whose state is (p, used): the paths the
\* frame yields, in order, when nothing else touches path and used_mask.
RECURSIVE SolveAll(_, _, _, _)
RECURSIVE SolveEach(_, _, _, _, _)
SolveAll(r, p, used, n) ==
    IF IsComplete(Len(p), n)
    THEN IF r.end_node_r = NoneInt \/ Last(p) = r.end_node_r THEN <<p>> ELSE <<>>
    ELSE LET cand == Candidates(r, p, used, n)
         IN  IF cand.ret THEN <<>> ELSE SolveEach(r, p, used, n, cand.list)

SolveEach(r, p, used, n, list) ==
    IF list = <<>> THEN <<>>
    ELSE LET c == Head(list)
             here == IF Bit(used, c) = 1 THEN <<>>
                     ELSE SolveAll(r, Append(p, c), SetBit(used, c), n)
         IN  here \o SolveEach(r, p, used, n, Tail(list))

RECURSIVE ValidOnly(_)
ValidOnly(seqs) ==
    IF seqs = <<>> THEN <<>>
    ELSE IF sequence_is_valid(Head(seqs)) THEN <<Head(seqs)>> \o ValidOnly(Tail(seqs))
    ELSE ValidOnly(Tail(seqs))

Min(a, b) == IF a <= b THEN a ELSE b

\* The first k elements of a list (all of it when k is None).
Take(list, k) == IF k = NoneInt THEN list ELSE SubSeq(list, 1, Min(k, Len(list)))

\* list(generate_valid_setlists(limit=None, start_team, end_team)) for
\* arguments that pass the checks.
UnlimitedOutput(a) ==
    LET r == Reindex(a)
        found == SolveAll(r, <<>>, 0, team_count)
    IN  ValidOnly([k \in 1..Len(found) |-> NamesOf(r, found[k])])

\* What generate_valid_setlists(limit, start_team, end_team) yields when it
\* is the only generator consumed.
AloneOutput(a) ==
    IF RaisesValueError(a) THEN <<>> ELSE Take(UnlimitedOutput(a), a.limit)

IsPrefix(s, t) == Len(s) <= Len(t) /\ s = SubSeq(t, 1, Len(s))

\* ---------------------------------------------------------- properties
Given(team) == team # None

Disjoint(a, b) == \A m \in teams_to_members[a] : m \notin teams_to_members[b]

\* The generator is inside a search: it has started and not ended.
InSearch(g) == pc[g] \in {"searching", "received", "suspended"}

PathOf(g) == path[SearchState(g)]

UsedOf(g) == used_mask[SearchState(g)]

\* The orderings of all teams in which neighbours share no member and the
\* given endpoints are respected.
HamiltonianPaths(a) ==
    {p \in [1..team_count -> Range(teams)] :
        /\ \A i, j \in 1..team_count : i # j => p[i] # p[j]
        /\ \A k \in 1..(team_count - 1) : Disjoint(p[k], p[k + 1])
        /\ Given(a.start_team) => p[1] = a.start_team
        /\ Given(a.end_team) => p[team_count] = a.end_team}

\* C1: every Setlist a generator has yielded has length n, contains each
\* team exactly once, and has disjoint member sets at every consecutive
\* pair.
C1_SetlistsAreValidPermutations ==
    \A g \in Gens : \A k \in 1..Len(out[g]) :
        LET s == out[g][k] IN
        /\ Len(s) = team_count
        /\ Range(s) = Range(teams)
        /\ \A i \in 1..(Len(s) - 1) : Disjoint(s[i], s[i + 1])

C1_Witness ==
    \E g \in Gens :
        /\ team_count = 3
        /\ Len(out[g]) >= 2
        /\ Given(args[g].end_team)

\* C2: a generator consumed to the end with no limit has yielded exactly
\* the Hamiltonian paths that start at start (if given) and end at end (if
\* given), each once.
C2_Exhaustive ==
    \A g \in Gens :
        (/\ pc[g] = "done"
         /\ args[g].limit = NoneInt
         /\ Given(args[g].start_team) => IsTeam(args[g].start_team)
         /\ Given(args[g].end_team) => IsTeam(args[g].end_team))
        => /\ Range(out[g]) = HamiltonianPaths(args[g])
           /\ Len(out[g]) = Cardinality(HamiltonianPaths(args[g]))

\* The same when every given endpoint is a non-empty identifier.
ExhaustiveForNonEmptyEndpoints ==
    \A g \in Gens :
        (/\ pc[g] = "done"
         /\ args[g].limit = NoneInt
         /\ Given(args[g].start_team) => Truthy(args[g].start_team)
         /\ Given(args[g].end_team) => Truthy(args[g].end_team))
        => /\ Range(out[g]) = HamiltonianPaths(args[g])
           /\ Len(out[g]) = Cardinality(HamiltonianPaths(args[g]))

\* C3: when start_team (end_team) is given and is a team of the graph, the
\* empty string included, every yielded Setlist begins (ends) with it.
C3_EndpointsEnforced ==
    \A g \in Gens : \A k \in 1..Len(out[g]) :
        /\ (Given(args[g].start_team) /\ IsTeam(args[g].start_team))
               => out[g][k][1] = args[g].start_team
        /\ (Given(args[g].end_team) /\ IsTeam(args[g].end_team))
               => Last(out[g][k]) = args[g].end_team

\* C4: with limit = k at most k Setlists are yielded, they are the first
\* ones of the sequence the same call yields with limit = None, and a
\* generator that has ended has yielded the first min(k, total) of them.
C4_CapCorrect ==
    \A g \in Gens :
        /\ args[g].limit # NoneInt => Len(out[g]) <= args[g].limit
        /\ pc[g] = "done" => out[g] = Take(UnlimitedOutput(args[g]), args[g].limit)

C4_Witness ==
    \E g \in Gens :
        /\ pc[g] = "done"
        /\ args[g].limit = 1
        /\ Len(out[g]) = 1
        /\ Len(UnlimitedOutput(args[g])) > 1

\* C5: a start_team or end_team that is given and is no team of the graph
\* makes the call itself raise: no generator object exists for it.
C5_ErrorAtCall ==
    \A g \in Gens :
        pc[g] = "created" =>
            /\ Given(args[g].start_team) => IsTeam(args[g].start_team)
            /\ Given(args[g].end_team) => IsTeam(args[g].end_team)

\* C6: the adjacency masks are symmetric and irreflexive, and bit j of
\* mask i is set exactly when the stripped member sets of teams i and j
\* (i # j) are disjoint; no other bit is set.
C6_AdjacencySymmetricIrreflexive ==
    /\ Len(adjacency_masks) = Len(teams)
    /\ \A t \in DOMAIN teams_to_members :
         \A m \in teams_to_members[t] : Strip(m) = m
    /\ \A i \in 1..Len(teams) :
        /\ Bit(adjacency_masks[i], i - 1) = 0
        /\ adjacency_masks[i] < 2 ^ Len(teams)
        /\ \A j \in 1..Len(teams) :
             i # j =>
               /\ Bit(adjacency_masks[i], j - 1) = Bit(adjacency_masks[j], i - 1)
               /\ Bit(adjacency_masks[i], j - 1) = 1
                    <=> (\A m \in teams_to_members[teams[i]] :
                            m \notin teams_to_members[teams[j]])

C6_Witness ==
    /\ team_count = 3
    /\ teams_to_members[At(teams, 0)] = {}
    /\ At(adjacency_masks, 0) = 6
    /\ At(adjacency_masks, 1) = 1
    /\ pc = [g \in Gens |-> "absent"]

\* C7: whatever the interleaving of pulls on two generators of one solver,
\* between any two pulls each has yielded a prefix of what it yields alone,
\* all of it once it has ended, and no step changes teams, member sets or
\* adjacency masks.
C7_Observed ==
    Idle =>
        \A g \in Gens :
            /\ pc[g] = "suspended" => IsPrefix(out[g], AloneOutput(args[g]))
            /\ pc[g] = "done" => out[g] = AloneOutput(args[g])

C7_Isolation == [](C7_Observed) /\ [][UNCHANGED solver]_vars

C7_Witness ==
    /\ pc[1] = "suspended"
    /\ pc[2] = "suspended"
    /\ args[1] # args[2]
    /\ Len(out[1]) >= 2
    /\ Len(out[2]) >= 1
    /\ Len(out[1]) < Len(AloneOutput(args[1]))
    /\ Len(out[2]) < Len(AloneOutput(args[2]))

\* C8: inside a search path has no repeated index and used_mask has
\* exactly the bits of the indices in path; and whenever a frame is at its
\* entry, at a yield, or back in its loop after a candidate was explored,
\* path and used_mask are what they were when the frame was entered.
C8_SearchState ==
    \A g \in Gens :
        InSearch(g) =>
            LET p == PathOf(g)
                f == Top(g)
            IN  /\ \A i, j \in 1..Len(p) : i # j => p[i] # p[j]
                /\ UsedOf(g) = MaskOf(Range(p))
                /\ f.at \in {"entry", "loop", "yielded"}
                     => /\ p = f.path0
                        /\ UsedOf(g) = f.used0
                /\ f.at = "rec"
                     => /\ p = Append(f.path0, At(f.candidates, f.k))
                        /\ UsedOf(g) = SetBit(f.used0, At(f.candidates, f.k))

C8_Witness ==
    \E g \in Gens :
        /\ pc[g] = "searching"
        /\ Top(g).at = "loop"
        /\ Top(g).k = 1
        /\ Len(Top(g).candidates) = 2
        /\ Len(PathOf(g)) = 1

\* C9: with an end constraint and n > 1, the end index is in path only at
\* position n - 1 (stated here for a start that is absent or differs from
\* the end, the case in which orderings can exist).
C9_EndReserved ==
    \A g \in Gens :
        (/\ InSearch(g)
         /\ rank[g].end_node_r # NoneInt
         /\ rank[g].start_node_r # rank[g].end_node_r
         /\ team_count > 1)
        => \A k \in 1..Len(PathOf(g)) :
              PathOf(g)[k] = rank[g].end_node_r => k = team_count

\* C10: once limit = k >= 1 Setlists have been yielded, the search engine
\* does not run again: no further node is appended to path, so no solve()
\* frame is entered for a longer path.
C10_CapBoundsWork ==
    \A g \in Gens :
        ~(/\ pc[g] = "searching"
          /\ args[g].limit >= 1
          /\ Len(out[g]) >= args[g].limit
          /\ Top(g).at = "entry")

====
